---- MODULE Spec2Model ----
(***************************************************************************)
(* Model of migrate_settings.py: the one-off schema migration that adds    *)
(* the columns address_vente and site_livraison to the table pop_config    *)
(* of the SQLite database at db_path.  NumRuns invocations of the script   *)
(* act on the same database file; each invocation has its own connection,  *)
(* its own snapshot `columns` and its own output.                          *)
(***************************************************************************)
EXTENDS Naturals, Sequences, FiniteSets

\* Number of invocations of the script against the same database file.
NumRuns == 2

Procs == 1 .. NumRuns

\* Lines 17-27: the two columns, in the order the script checks them.
Target == << "address_vente", "site_livraison" >>

\* A column of pop_config: name, declared type, and the data stored in it.
Col(n, t, d) == [name |-> n, type |-> t, data |-> d]

BaseCols == << Col("id", "INTEGER", "d_id"), Col("name", "TEXT", "d_name") >>

\* The column lists pop_config may have when the script is first invoked.
InitSchemas ==
  { BaseCols,
    BaseCols \o << Col("address_vente", "TEXT", "d_av") >>,
    BaseCols \o << Col("address_vente", "INTEGER", "d_av") >>,
    BaseCols \o << Col("site_livraison", "TEXT", "d_sl") >>,
    << Col("site_livraison", "TEXT", "d_sl") >> \o BaseCols,
    BaseCols \o << Col("address_vente", "TEXT", "d_av"),
                   Col("site_livraison", "TEXT", "d_sl") >>,
    BaseCols \o << Col("site_livraison", "INTEGER", "d_sl"),
                   Col("address_vente", "TEXT", "d_av") >> }

VARIABLES
  fileExists,   \* os.path.exists(db_path)
  tableExists,  \* the database has a table pop_config
  tableCols,    \* the columns of pop_config, in catalog order
  pc,           \* per run: the statement the run is at
  conn,         \* per run: "none", "open" or "closed"
  columns,      \* per run: the snapshot of line 15
  attempted,    \* per run: the columns an ALTER TABLE was executed for
  added,        \* per run: the columns an ALTER TABLE succeeded for
  committed,    \* per run: conn.commit() has returned
  introspected, \* per run: number of PRAGMA table_info executions
  startCols,    \* per run: tableCols when the run began
  out           \* per run: the lines printed

vars == << fileExists, tableExists, tableCols, pc, conn, columns, attempted,
           added, committed, introspected, startCols, out >>

Contains(seq, x) == \E i \in DOMAIN seq : seq[i] = x

NameSet(cols) == { cols[i].name : i \in DOMAIN cols }

Range(seq) == { seq[i] : i \in DOMAIN seq }

\* A printed line: its kind, the column it names and the database error text.
Msg(k, c, e) == [kind |-> k, col |-> c, err |-> e]

\* Line 14: PRAGMA table_info returns one row (cid, name, type) per column,
\* and no row at all (without raising) for a table that does not exist.
TableInfo(exists, cols) ==
  IF exists THEN [i \in DOMAIN cols |-> << i - 1, cols[i].name, cols[i].type >>]
  ELSE << >>

\* A slip in line 15: col[2] (the declared type) read in place of col[1].
ColumnNamesWrongIndex(rows) == [i \in DOMAIN rows |-> rows[i][3]]

\* Line 15: [col[1] for col in cursor.fetchall()].
ColumnNames(rows) == [i \in DOMAIN rows |-> rows[i][2]]

\* Lines 17 and 23: `name not in columns`.
NotIn(snapshot, c) == ~ Contains(snapshot, c)

\* A database that does not reject an ADD COLUMN of an existing name.
AlterErrorNoDuplicateCheck(exists, cols, c, fault) ==
  IF fault THEN Msg("error", "", "database is locked")
  ELSE IF ~ exists THEN Msg("error", "", "no such table")
  ELSE Msg("ok", "", "")

\* Lines 19 and 25: the outcome of ALTER TABLE pop_config ADD COLUMN c TEXT.
\* The result is the error raised: its text and the column the text names
\* ("" when it names none); "ok" when the statement succeeds.
AlterError(exists, cols, c, fault) ==
  IF fault THEN Msg("error", "", "database is locked")
  ELSE IF ~ exists THEN Msg("error", "", "no such table")
  ELSE IF c \in NameSet(cols) THEN Msg("error", c, "duplicate column name")
  ELSE Msg("ok", "", "")

\* A migration that rebuilds the table, declaring every column TEXT.
AddColumnRebuild(cols, c) ==
  Append([i \in DOMAIN cols |-> Col(cols[i].name, "TEXT", cols[i].data)],
         Col(c, "TEXT", "NULL"))

\* Lines 19 and 25: a successful ADD COLUMN appends a TEXT column holding NULL.
AddColumn(cols, c) == Append(cols, Col(c, "TEXT", "NULL"))

\* Line 33: print(f"Migration failed: {e}").
Failed(e) == Msg("failed", e.col, e.err)

\* The script without the guard of line 6.
CheckExistsNoGuard(p) ==
  /\ pc[p] = "start"
  /\ startCols' = [startCols EXCEPT ![p] = tableCols]
  /\ pc' = [pc EXCEPT ![p] = "connect"]
  /\ UNCHANGED << fileExists, tableExists, tableCols, conn, columns, attempted,
                  added, committed, introspected, out >>

\* Line 6: if not os.path.exists(db_path).
CheckExists(p) ==
  /\ pc[p] = "start"
  /\ startCols' = [startCols EXCEPT ![p] = tableCols]
  /\ IF ~ fileExists
       THEN /\ out' = [out EXCEPT ![p] = Append(@, Msg("not_found", "", ""))]
            /\ pc' = [pc EXCEPT ![p] = "not_found"]
       ELSE /\ pc' = [pc EXCEPT ![p] = "connect"]
            /\ out' = out
  /\ UNCHANGED << fileExists, tableExists, tableCols, conn, columns, attempted,
                  added, committed, introspected >>

\* Lines 10-11: sqlite3.connect(db_path) creates the file when it is absent.
Connect(p) ==
  /\ pc[p] = "connect"
  /\ \E fault \in BOOLEAN :
       IF fault
         THEN /\ pc' = [pc EXCEPT ![p] = "failed"]
              /\ out' = [out EXCEPT ![p] =
                   Append(@, Failed(Msg("error", "", "unable to open database file")))]
              /\ UNCHANGED << conn, fileExists >>
         ELSE /\ conn' = [conn EXCEPT ![p] = "open"]
              /\ fileExists' = TRUE
              /\ pc' = [pc EXCEPT ![p] = "pragma"]
              /\ out' = out
  /\ UNCHANGED << tableExists, tableCols, columns, attempted, added, committed,
                  introspected, startCols >>

\* Lines 14-15: introspection of pop_config.
Introspect(p) ==
  /\ pc[p] = "pragma"
  /\ introspected' = [introspected EXCEPT ![p] = @ + 1]
  /\ \E fault \in BOOLEAN :
       IF fault
         THEN /\ pc' = [pc EXCEPT ![p] = "failed"]
              /\ out' = [out EXCEPT ![p] =
                   Append(@, Failed(Msg("error", "", "database is locked")))]
              /\ UNCHANGED columns
         ELSE /\ columns' = [columns EXCEPT ![p] =
                   ColumnNames(TableInfo(tableExists, tableCols))]
              /\ pc' = [pc EXCEPT ![p] = "check_address_vente"]
              /\ out' = out
  /\ UNCHANGED << fileExists, tableExists, tableCols, conn, attempted, added,
                  committed, startCols >>

\* The block with the failure of the ALTER TABLE swallowed (try/except/pass
\* around the statement): the run goes on to the next statement.
CheckAndAddSwallow(p, c, next) ==
  IF NotIn(columns[p], c)
    THEN \E fault \in BOOLEAN :
           LET e == AlterError(tableExists, tableCols, c, fault) IN
           /\ attempted' = [attempted EXCEPT ![p] = Append(@, c)]
           /\ out' = [out EXCEPT ![p] = Append(@, Msg("adding", c, ""))]
           /\ pc' = [pc EXCEPT ![p] = next]
           /\ IF e.kind = "ok"
                THEN /\ tableCols' = AddColumn(tableCols, c)
                     /\ added' = [added EXCEPT ![p] = Append(@, c)]
                ELSE UNCHANGED << tableCols, added >>
    ELSE /\ out' = [out EXCEPT ![p] = Append(@, Msg("exists", c, ""))]
         /\ pc' = [pc EXCEPT ![p] = next]
         /\ UNCHANGED << tableCols, attempted, added >>

\* The block with the run's additions undone when the ALTER TABLE fails (all
\* the ALTER TABLE statements in one transaction, rolled back on error).
CheckAndAddRollback(p, c, next) ==
  IF NotIn(columns[p], c)
    THEN \E fault \in BOOLEAN :
           LET e == AlterError(tableExists, tableCols, c, fault) IN
           /\ attempted' = [attempted EXCEPT ![p] = Append(@, c)]
           /\ IF e.kind = "ok"
                THEN /\ tableCols' = AddColumn(tableCols, c)
                     /\ added' = [added EXCEPT ![p] = Append(@, c)]
                     /\ out' = [out EXCEPT ![p] = Append(@, Msg("adding", c, ""))]
                     /\ pc' = [pc EXCEPT ![p] = next]
                ELSE /\ out' = [out EXCEPT ![p] =
                          @ \o << Msg("adding", c, ""), Failed(e) >>]
                     /\ pc' = [pc EXCEPT ![p] = "failed"]
                     /\ tableCols' = SelectSeq(tableCols,
                          LAMBDA col : col.name \notin Range(added[p]))
                     /\ UNCHANGED added
    ELSE /\ out' = [out EXCEPT ![p] = Append(@, Msg("exists", c, ""))]
         /\ pc' = [pc EXCEPT ![p] = next]
         /\ UNCHANGED << tableCols, attempted, added >>

\* Lines 17-21 and 23-27: one `if name not in columns` block.
CheckAndAdd(p, c, next) ==
  IF NotIn(columns[p], c)
    THEN \E fault \in BOOLEAN :
           LET e == AlterError(tableExists, tableCols, c, fault) IN
           /\ attempted' = [attempted EXCEPT ![p] = Append(@, c)]
           /\ IF e.kind = "ok"
                THEN /\ tableCols' = AddColumn(tableCols, c)
                     /\ added' = [added EXCEPT ![p] = Append(@, c)]
                     /\ out' = [out EXCEPT ![p] = Append(@, Msg("adding", c, ""))]
                     /\ pc' = [pc EXCEPT ![p] = next]
                ELSE /\ out' = [out EXCEPT ![p] =
                          @ \o << Msg("adding", c, ""), Failed(e) >>]
                     /\ pc' = [pc EXCEPT ![p] = "failed"]
                     /\ UNCHANGED << tableCols, added >>
    ELSE /\ out' = [out EXCEPT ![p] = Append(@, Msg("exists", c, ""))]
         /\ pc' = [pc EXCEPT ![p] = next]
         /\ UNCHANGED << tableCols, attempted, added >>

\* Lines 17-21.
CheckAddressVente(p) ==
  /\ pc[p] = "check_address_vente"
  /\ CheckAndAdd(p, Target[1], "check_site_livraison")
  /\ UNCHANGED << fileExists, tableExists, conn, columns, committed,
                  introspected, startCols >>

\* Line 23 written `elif`: the second check is skipped when the first block
\* took its ADD COLUMN branch.
CheckSiteLivraisonElif(p) ==
  /\ pc[p] = "check_site_livraison"
  /\ IF NotIn(columns[p], Target[1])
       THEN /\ pc' = [pc EXCEPT ![p] = "commit"]
            /\ UNCHANGED << tableCols, attempted, added, out >>
       ELSE CheckAndAdd(p, Target[2], "commit")
  /\ UNCHANGED << fileExists, tableExists, conn, columns, committed,
                  introspected, startCols >>

\* Lines 23-27 pasted from lines 17-21 with the column name left unchanged.
CheckSiteLivraisonPasted(p) ==
  /\ pc[p] = "check_site_livraison"
  /\ CheckAndAdd(p, Target[1], "commit")
  /\ UNCHANGED << fileExists, tableExists, conn, columns, committed,
                  introspected, startCols >>

\* Lines 23-27.
CheckSiteLivraison(p) ==
  /\ pc[p] = "check_site_livraison"
  /\ CheckAndAdd(p, Target[2], "commit")
  /\ UNCHANGED << fileExists, tableExists, conn, columns, committed,
                  introspected, startCols >>

\* Line 29: conn.commit().  Every ALTER TABLE ran in autocommit mode, so no
\* transaction is open and the commit changes nothing in the catalog.
Commit(p) ==
  /\ pc[p] = "commit"
  /\ committed' = [committed EXCEPT ![p] = TRUE]
  /\ pc' = [pc EXCEPT ![p] = "close"]
  /\ UNCHANGED << fileExists, tableExists, tableCols, conn, columns, attempted,
                  added, introspected, startCols, out >>

\* The script without line 30.
CloseMissing(p) ==
  /\ pc[p] = "close"
  /\ pc' = [pc EXCEPT ![p] = "report"]
  /\ UNCHANGED << fileExists, tableExists, tableCols, conn, columns, attempted,
                  added, committed, introspected, startCols, out >>

\* Line 30: conn.close().
Close(p) ==
  /\ pc[p] = "close"
  /\ conn' = [conn EXCEPT ![p] = "closed"]
  /\ pc' = [pc EXCEPT ![p] = "report"]
  /\ UNCHANGED << fileExists, tableExists, tableCols, columns, attempted,
                  added, committed, introspected, startCols, out >>

\* Line 31: print("Migration completed successfully.").
ReportSuccess(p) ==
  /\ pc[p] = "report"
  /\ out' = [out EXCEPT ![p] = Append(@, Msg("completed", "", ""))]
  /\ pc' = [pc EXCEPT ![p] = "done"]
  /\ UNCHANGED << fileExists, tableExists, tableCols, conn, columns, attempted,
                  added, committed, introspected, startCols >>

Init ==
  /\ fileExists \in BOOLEAN
  /\ tableExists \in (IF fileExists THEN BOOLEAN ELSE {FALSE})
  /\ tableCols \in (IF tableExists THEN InitSchemas ELSE {<< >>})
  /\ pc = [p \in Procs |-> "start"]
  /\ conn = [p \in Procs |-> "none"]
  /\ columns = [p \in Procs |-> << >>]
  /\ attempted = [p \in Procs |-> << >>]
  /\ added = [p \in Procs |-> << >>]
  /\ committed = [p \in Procs |-> FALSE]
  /\ introspected = [p \in Procs |-> 0]
  /\ startCols = [p \in Procs |-> << >>]
  /\ out = [p \in Procs |-> << >>]

Step(p) ==
  \/ CheckExists(p)
  \/ Connect(p)
  \/ Introspect(p)
  \/ CheckAddressVente(p)
  \/ CheckSiteLivraison(p)
  \/ Commit(p)
  \/ Close(p)
  \/ ReportSuccess(p)

\* The runs' statements interleave freely (no external serialization).
Next == \E p \in Procs : Step(p)

Spec == Init /\ [][Next]_vars

\* A run has ended: the script printed its last line.
Stopped(p) == pc[p] \in {"done", "failed", "not_found"}

\* Invocations in succession: a run begins when the earlier ones have ended.
NextSeq == \E p \in Procs : (\A q \in Procs : q < p => Stopped(q)) /\ Step(p)

SpecSeq == Init /\ [][NextSeq]_vars

\* The script is straight-line blocking code: a run that can take its next
\* statement eventually takes it.
FairSpec == Spec /\ \A p \in Procs : WF_vars(Step(p))

(***************************************************************************)
(* Notions the properties below are stated in.                             *)
(***************************************************************************)

\* The last line a run printed is the success line of line 31.
ReportedSuccess(p) == Contains(out[p], Msg("completed", "", ""))

\* The columns a run reported as already existing (lines 21 and 27).
Skipped(p) ==
  LET ex == SelectSeq(out[p], LAMBDA m : m.kind = "exists")
  IN  [i \in DOMAIN ex |-> ex[i].col]

\* The run failed inside an ALTER TABLE: one more attempted than added.
AlterFailed(p) == pc[p] = "failed" /\ Len(attempted[p]) = Len(added[p]) + 1

\* The stage of the run in the terms Idle / Planned / Done / Failed.
Phase(p) ==
  CASE pc[p] \in {"start", "connect", "pragma"} -> "Idle"
    [] pc[p] \in {"check_address_vente", "check_site_livraison", "commit",
                  "close", "report"} -> "Planned"
    [] pc[p] = "done" -> "Done"
    [] pc[p] = "failed" -> "Failed"
    [] pc[p] = "not_found" -> "NotFound"

\* C10: while the database file does not exist, every run is either not yet
\* begun or has ended with the line "Database not found" as its only output:
\* it holds no connection, has executed neither the PRAGMA nor an ALTER TABLE
\* and never reports success or failure; and no step creates the file.
C10_DatabaseNotFound ==
  /\ [](~ fileExists =>
          \A p \in Procs :
            /\ pc[p] \in {"start", "not_found"}
            /\ conn[p] = "none"
            /\ introspected[p] = 0
            /\ attempted[p] = << >>
            /\ pc[p] = "not_found" => out[p] = << Msg("not_found", "", "") >>
            /\ pc[p] = "start" => out[p] = << >>)
  /\ [][~ fileExists => ~ fileExists']_vars

C10_Witness ==
  /\ ~ fileExists
  /\ \A p \in Procs : pc[p] = "not_found" /\ conn[p] = "none"

\* C8: whenever a run has reported success, pop_config exists and holds both
\* address_vente and site_livraison, conn.commit() has returned, and every
\* ALTER TABLE the run executed succeeded.
C8_SuccessMeansAllPresent ==
  \A p \in Procs :
    (ReportedSuccess(p) \/ pc[p] = "done") =>
       /\ tableExists
       /\ Range(Target) \subseteq NameSet(tableCols)
       /\ committed[p]
       /\ attempted[p] = added[p]
       /\ pc[p] = "done"

C8_Witness ==
  \E p \in Procs : ReportedSuccess(p) /\ added[p] = Target /\ committed[p]

\* C9: with the runs interleaved, no name occurs twice among the columns of
\* pop_config, no target column is added by two runs, and a run that executed
\* an ALTER TABLE which did not add its column has ended in the failed outcome
\* and never reports success.
C9_NoColumnAddedTwice ==
  /\ \A i, j \in DOMAIN tableCols :
       tableCols[i].name = tableCols[j].name => i = j
  /\ \A p, q \in Procs :
       p # q => Range(added[p]) \cap Range(added[q]) = {}
  /\ \A p \in Procs :
       Range(attempted[p]) # Range(added[p]) =>
         pc[p] = "failed" /\ ~ ReportedSuccess(p)

\* Both runs took their snapshot before either added; one added address_vente,
\* the other was rejected with "duplicate column name" and ended failed.
C9_Witness ==
  \E p, q \in Procs :
    /\ p # q
    /\ NotIn(columns[p], "address_vente") /\ NotIn(columns[q], "address_vente")
    /\ Contains(added[q], "address_vente")
    /\ attempted[p] = << "address_vente" >> /\ added[p] = << >>
    /\ pc[p] = "failed"
    /\ out[p][Len(out[p])] =
         Msg("failed", "address_vente", "duplicate column name")

\* C2: no step drops, renames, retypes or rewrites the data of a column of
\* pop_config: every column keeps its place, name, declared type and data,
\* and the only change to the column list is one target column, absent from
\* the acting run's snapshot, appended as a TEXT column.
C2_NonDestructive ==
  [][ /\ tableExists' = tableExists
      /\ Len(tableCols') >= Len(tableCols)
      /\ \A i \in DOMAIN tableCols : tableCols'[i] = tableCols[i]
      /\ tableCols' # tableCols =>
           \E p \in Procs : \E c \in Range(Target) :
             /\ NotIn(columns[p], c)
             /\ tableCols' = Append(tableCols, Col(c, "TEXT", "NULL")) ]_vars

C2_Witness ==
  \E p \in Procs :
    /\ added[p] # << >>
    /\ \E i \in DOMAIN startCols[p] : startCols[p][i].type = "INTEGER"
    /\ \A i \in DOMAIN startCols[p] : tableCols[i] = startCols[p][i]

\* The target columns missing from a column list, in the script's order.
MissingFrom(cols) == SelectSeq(Target, LAMBDA c : c \notin NameSet(cols))

\* C1: with the runs in succession, a run that completes has added exactly
\* the target columns pop_config lacked when it began (both, in the script's
\* order, when it lacked both); and a run that follows a completed run
\* executes no ALTER TABLE, adds nothing, and has reported both target
\* columns as already existing once it is past the two checks.
C1_Idempotence ==
  \A p \in Procs :
    /\ pc[p] = "done" => added[p] = MissingFrom(startCols[p])
    /\ (\E q \in Procs : q < p /\ pc[q] = "done") =>
         /\ attempted[p] = << >>
         /\ added[p] = << >>
         /\ pc[p] \in {"commit", "close", "report", "done"} =>
              Skipped(p) = Target

C1_Witness ==
  \E p, q \in Procs :
    /\ p < q
    /\ pc[p] = "done" /\ added[p] = Target /\ Skipped(p) = << >>
    /\ pc[q] = "done" /\ added[q] = << >> /\ Skipped(q) = Target

\* C3 as claimed: when an ALTER TABLE of a run fails, the columns the run
\* added before it are still in pop_config and the error the run reports
\* names the column whose ALTER TABLE failed.
C3_ErrorNamesColumn ==
  \A p \in Procs :
    AlterFailed(p) =>
      /\ Range(added[p]) \subseteq NameSet(tableCols)
      /\ out[p][Len(out[p])].kind = "failed"
      /\ out[p][Len(out[p])].col = attempted[p][Len(attempted[p])]

\* C3, amended: when an ALTER TABLE of a run fails, the columns the run added
\* before it are still in pop_config, the run's last line is the failure
\* line, and the line printed just before it is the "Adding column" line of
\* the column whose ALTER TABLE failed; the failure line itself names that
\* column only when the database's error is "duplicate column name".
C3_PartialFailureContained ==
  \A p \in Procs :
    AlterFailed(p) =>
      LET n    == Len(out[p])
          last == attempted[p][Len(attempted[p])]
      IN  /\ Range(added[p]) \subseteq NameSet(tableCols)
          /\ attempted[p] = Append(added[p], last)
          /\ n >= 2
          /\ out[p][n].kind = "failed"
          /\ out[p][n - 1] = Msg("adding", last, "")
          /\ out[p][n].col = last <=> out[p][n].err = "duplicate column name"
          /\ out[p][n].col # last => out[p][n].col = ""

\* The second ALTER TABLE failed on a locked database after the first one
\* had added address_vente, which is still in the table.
C3_Witness ==
  \E p \in Procs :
    /\ AlterFailed(p)
    /\ added[p] = << "address_vente" >>
    /\ attempted[p] = Target
    /\ "address_vente" \in NameSet(tableCols)
    /\ out[p][Len(out[p])] = Msg("failed", "", "database is locked")

\* C4 as claimed: while pop_config does not exist, no run executes an ALTER
\* TABLE, no run reports success, and the catalog stays as it was.
C4_NoChangeAttempted ==
  ~ tableExists =>
    /\ tableCols = << >>
    /\ \A p \in Procs : attempted[p] = << >> /\ ~ ReportedSuccess(p)

\* C4, amended: while pop_config does not exist, the introspection returns an
\* empty snapshot without failing, so the run executes the ALTER TABLE for
\* address_vente and no other; the database rejects it ("no such table"
\* unless the database failed for another reason), the run ends in the failed
\* outcome, never reports success, adds no column, and the catalog stays as
\* it was.
C4_MissingTableFails ==
  ~ tableExists =>
    /\ tableCols = << >>
    /\ \A p \in Procs :
         /\ added[p] = << >>
         /\ columns[p] = << >>
         /\ attempted[p] \in {<< >>, << "address_vente" >>}
         /\ ~ ReportedSuccess(p)
         /\ pc[p] \in {"start", "not_found", "connect", "pragma",
                       "check_address_vente", "failed"}
         /\ attempted[p] # << >> =>
              /\ pc[p] = "failed"
              /\ out[p][Len(out[p])].err \in {"no such table", "database is locked"}

C4_Witness ==
  /\ ~ tableExists /\ fileExists
  /\ \E p \in Procs :
       /\ pc[p] = "failed"
       /\ introspected[p] = 1
       /\ attempted[p] = << "address_vente" >>
       /\ out[p][Len(out[p])] = Msg("failed", "", "no such table")

\* C5 as claimed: no run ever opens or closes a connection.
C5_NeverOpensOrCloses == \A p \in Procs : conn[p] = "none"

\* C5, amended: the run opens its own connection (line 10) when the database
\* file exists and closes it itself only on the success path (line 30): the
\* connection is closed once the run is past line 30, is still open in a run
\* that failed after connecting, and no connection exists when the file is
\* missing or the connect itself failed.
C5_OwnConnection ==
  \A p \in Procs :
    /\ pc[p] \in {"report", "done"} => conn[p] = "closed"
    /\ pc[p] \in {"pragma", "check_address_vente", "check_site_livraison",
                  "commit", "close"} => conn[p] = "open"
    /\ pc[p] \in {"start", "connect", "not_found"} => conn[p] = "none"
    /\ pc[p] = "failed" =>
         conn[p] = (IF introspected[p] = 1 THEN "open" ELSE "none")

C5_Witness ==
  \E p, q \in Procs :
    /\ pc[p] = "done" /\ conn[p] = "closed"
    /\ pc[q] = "failed" /\ conn[q] = "open"

\* The stage changes a run may make: Idle to Planned by the introspection,
\* Planned to Done or Failed, and Idle straight to an end when the file is
\* missing or the connect or the introspection fails.
PhaseMoves ==
  { << "Idle", "Planned" >>, << "Planned", "Done" >>, << "Planned", "Failed" >>,
    << "Idle", "Failed" >>, << "Idle", "NotFound" >> }

\* What a run has executed so far: the introspection at most once and before
\* any ALTER TABLE, and each target column attempted at most once.
RunCounts(p) ==
  /\ introspected[p] <= 1
  /\ attempted[p] # << >> => introspected[p] = 1
  /\ Phase(p) \in {"Planned", "Done"} => introspected[p] = 1
  /\ \A i, j \in DOMAIN attempted[p] :
       attempted[p][i] = attempted[p][j] => i = j

\* An ended run takes no further step: nothing is retried.
StaysEnded(p) ==
  Stopped(p) =>
    /\ pc'[p] = pc[p] /\ out'[p] = out[p]
    /\ attempted'[p] = attempted[p]
    /\ introspected'[p] = introspected[p]

\* C6 as claimed: every run goes Idle -> Planned -> Done or Failed and then
\* stops, with the introspection exactly once and before any ALTER TABLE,
\* each target column attempted at most once, nothing retried, and the run
\* always reaching Done or Failed.
C6_AsClaimed ==
  /\ [](\A p \in Procs : RunCounts(p))
  /\ [][\A p \in Procs :
          /\ Phase(p)' # Phase(p) =>
               << Phase(p), Phase(p)' >> \in
                 { << "Idle", "Planned" >>, << "Planned", "Done" >>,
                   << "Planned", "Failed" >> }
          /\ StaysEnded(p)]_vars
  /\ \A p \in Procs : <>(Phase(p) \in {"Done", "Failed"})

\* C6, amended: every run goes Idle -> Planned -> Done or Failed, or leaves
\* Idle straight for Failed (connect or introspection failed) or for the
\* "Database not found" end (file missing), and then stops: the introspection
\* runs at most once and before any ALTER TABLE, has run exactly once in a
\* Planned or Done run and never in a "Database not found" run, each target
\* column is attempted at most once, an ended run takes no further step, and
\* every run reaches Done, Failed or the "Database not found" end.
C6_Lifecycle ==
  /\ [](\A p \in Procs :
          RunCounts(p) /\ (Phase(p) = "NotFound" => introspected[p] = 0))
  /\ [][\A p \in Procs :
          /\ Phase(p)' # Phase(p) => << Phase(p), Phase(p)' >> \in PhaseMoves
          /\ StaysEnded(p)]_vars
  /\ \A p \in Procs : <>(Phase(p) \in {"Done", "Failed", "NotFound"})

C6_Witness ==
  \E p, q \in Procs :
    /\ Phase(p) = "Done" /\ introspected[p] = 1 /\ attempted[p] = Target
    /\ Phase(q) = "Failed" /\ introspected[q] = 1

\* The run of lines 14-27 on a database that does not fail, with the two
\* `if` blocks taken in the given order: the column list it ends with and
\* the columns it added.
RECURSIVE ApplyBlocks(_, _, _, _)
ApplyBlocks(cols, snapshot, order, addedSoFar) ==
  IF order = << >> THEN [cols |-> cols, added |-> addedSoFar]
  ELSE LET c == Head(order) IN
       IF NotIn(snapshot, c) /\ AlterError(TRUE, cols, c, FALSE).kind = "ok"
         THEN ApplyBlocks(AddColumn(cols, c), snapshot, Tail(order),
                          Append(addedSoFar, c))
         ELSE ApplyBlocks(cols, snapshot, Tail(order), addedSoFar)

Reordered(cols, order) ==
  ApplyBlocks(cols, ColumnNames(TableInfo(TRUE, cols)), order, << >>)

Reverse(seq) == [i \in DOMAIN seq |-> seq[Len(seq) + 1 - i]]

\* C7: with the runs in succession, a completed run ends with the same set
\* of column names, and has added the same set of columns, as the run with
\* the two blocks in the opposite order would from the same starting columns;
\* the two added lists are each other's reverse.
C7_OrderIndependence ==
  \A p \in Procs :
    pc[p] = "done" =>
      LET r == Reordered(startCols[p], Reverse(Target))
      IN  /\ NameSet(tableCols) = NameSet(r.cols)
          /\ Range(added[p]) = Range(r.added)
          /\ added[p] = Reverse(r.added)

C7_Witness ==
  \E p \in Procs :
    /\ pc[p] = "done"
    /\ added[p] = Target
    /\ Reordered(startCols[p], Reverse(Target)).added = Reverse(Target)

====
